---- MODULE Spec2Model ----
(***************************************************************************)
(* Model of src/reorder.ts: reorderItems and sortItemsByOrder.             *)
(*                                                                         *)
(* Numbers.  An order value is a JavaScript number.  The model keeps it as *)
(* a fixed-point integer counting steps of 1/Unit, so 1 is Unit, 0.1 is    *)
(* Unit \div 10 and 1.05 is Unit + Unit \div 20.  Every order value the    *)
(* inputs are drawn from is a multiple of 128 steps, which makes seven     *)
(* midpoints in a row exact: a gap of at most ten halved more often is     *)
(* below the default minOrderGap and ends in a renumbering to multiples of *)
(* ten.  An                                                                *)
(* absent order (undefined) is the reserved value Undefined, which no      *)
(* arithmetic of the model produces.                                       *)
(***************************************************************************)
EXTENDS Integers, Sequences, FiniteSets, TLC

VARIABLES
    items,          \* argument: the input array of { id, order? }
    moveId,         \* argument: id of the item to move ("" is the empty string)
    targetIndex,    \* argument: 0-based target position
    options,        \* argument: ReorderOptions, a field is Undefined when not given
    pc,             \* "ready", then "returned" | "threw" | "sorted"
    error,          \* the Error thrown by reorderItems, "none" otherwise
    newOrder,       \* local newOrder of reorderItems (the candidate)
    renumbered,     \* which branch of `if (needsRenumbering(...))` ran
    changes,        \* ReorderResult.changes
    orderedItems,   \* ReorderResult.orderedItems
    sortedItems,    \* the array returned by sortItemsByOrder
    second,         \* the ReorderResult of calling again on orderedItems
    db,             \* repository: the stored collection of { id, order }
    db0,            \* repository: the collection before any caller touched it
    caller,         \* repository: per caller, its place in reorderChapters
    serialized,     \* repository: callers hold a per-collection lock
    lock,           \* repository: the caller holding the lock, 0 when free
    plan,           \* session: how the caller picks its moves, "none" outside one
    start,          \* session: the collection the session began with
    calls,          \* session: the number of results fed back so far
    shadow          \* session: the moves so far executed on a plain list of ids

vars == <<items, moveId, targetIndex, options, pc, error, newOrder,
          renumbered, changes, orderedItems, sortedItems, second,
          db, db0, caller, serialized, lock, plan, start, calls, shadow>>

\* the arguments and results of a direct call
callVars == <<items, moveId, targetIndex, options, pc, error, newOrder,
              renumbered, changes, orderedItems, sortedItems, second>>

\* the repository and its callers
repoVars == <<db, db0, caller, serialized, lock>>

\* a caller that passes each result on to its next call
sessionVars == <<plan, start, calls, shadow>>

----------------------------------------------------------------------------
(* Bounds of the model *)

MaxItems == 3

\* calls of a session whose moves are chosen freely
MaxCalls == 3

\* calls of a session that repeats one move until a renumbering
DrillLimit == 12

----------------------------------------------------------------------------
(* Number representation *)

Unit == 1280

Undefined == 0 - 999999

IdNames == <<"A", "B", "C", "D", "E", "F">>

Ids == { IdNames[i] : i \in 1..MaxItems }

\* an id that no item of the input carries
UnknownId == "Z"

\* 0, 1, 1.1, 3, 10 and the absent order
OrderValues == { 0, Unit, Unit + Unit \div 10, 3 * Unit, 10 * Unit }

Orders == OrderValues \cup { Undefined }

----------------------------------------------------------------------------
(* Program constants *)

DEFAULT_MIN_ORDER_GAP == Unit \div 10

DEFAULT_RENUMBER_GAP == 10 * Unit

DEFAULT_MIN_ORDER_VALUE == 1 * Unit

----------------------------------------------------------------------------
(* Helpers for JavaScript semantics *)

Max(a, b) == IF a >= b THEN a ELSE b

Abs(a) == IF a < 0 THEN 0 - a ELSE a

\* !x for x : number | undefined
Falsy(x) == x = Undefined \/ x = 0

\* a ?? b
Coalesce(a, b) == IF a = Undefined THEN b ELSE a

\* arr[i]?.order with a 0-based index; an index outside the array reads undefined
OrderAt(arr, i) == IF i >= 0 /\ i < Len(arr) THEN arr[i + 1].order ELSE Undefined

\* arr.filter(item => item.id !== id)
FilterNotId(arr, id) == SelectSeq(arr, LAMBDA it : it.id # id)

\* variant: splice(i, 1, x), which overwrites the element at i
Splice_replacing(arr, i, x) ==
    LET k == IF i > Len(arr) THEN Len(arr) ELSE i
    IN  SubSeq(arr, 1, k) \o <<x>> \o SubSeq(arr, k + 2, Len(arr))

\* arr.splice(i, 0, x) on a copy, with 0 <= i
Splice(arr, i, x) ==
    LET k == IF i > Len(arr) THEN Len(arr) ELSE i
    IN  SubSeq(arr, 1, k) \o <<x>> \o SubSeq(arr, k + 1, Len(arr))

\* items.find(item => item.id === id): 0 when there is none, else the first index
FindIndex(arr, id) ==
    IF \E i \in 1..Len(arr) : arr[i].id = id
    THEN CHOOSE i \in 1..Len(arr) :
            /\ arr[i].id = id
            /\ \A j \in 1..(i - 1) : arr[j].id # id
    ELSE 0

----------------------------------------------------------------------------
(* The comparator and the sort *)

\* Number.MAX_SAFE_INTEGER stands in for an absent order in the comparator.
\* Every order value of the model lies below it.
MAX_SAFE_INTEGER == 2000000000

\* variant: a.order ?? 0, which sorts an absent order first
SortKey_absentFirst(it) == Coalesce(it.order, 0)

SortKey(it) == Coalesce(it.order, MAX_SAFE_INTEGER)

\* variant: a comparator that also moves x before its equals
RECURSIVE InsertSorted_unstable(_, _)
InsertSorted_unstable(arr, x) ==
    IF arr = <<>> THEN <<x>>
    ELSE IF SortKey(arr[Len(arr)]) - SortKey(x) >= 0
         THEN Append(InsertSorted_unstable(SubSeq(arr, 1, Len(arr) - 1), x),
                     arr[Len(arr)])
         ELSE Append(arr, x)

\* Array.prototype.sort is stable: x goes behind every element that does not
\* compare greater than it.
RECURSIVE InsertSorted(_, _)
InsertSorted(arr, x) ==
    IF arr = <<>> THEN <<x>>
    ELSE IF SortKey(arr[Len(arr)]) - SortKey(x) > 0
         THEN Append(InsertSorted(SubSeq(arr, 1, Len(arr) - 1), x), arr[Len(arr)])
         ELSE Append(arr, x)

RECURSIVE sortItemsByOrder(_)
sortItemsByOrder(arr) ==
    IF arr = <<>> THEN <<>>
    ELSE InsertSorted(sortItemsByOrder(SubSeq(arr, 1, Len(arr) - 1)), arr[Len(arr)])

----------------------------------------------------------------------------
(* reorderItems and its helpers *)

Config(opts) ==
    [ minOrderGap   |-> Coalesce(opts.minOrderGap, DEFAULT_MIN_ORDER_GAP),
      renumberGap   |-> Coalesce(opts.renumberGap, DEFAULT_RENUMBER_GAP),
      minOrderValue |-> Coalesce(opts.minOrderValue, DEFAULT_MIN_ORDER_VALUE) ]

\* variant: between two neighbours the item is put one after the previous
calculateOrderPosition_noMidpoint(config, prevOrder, nextOrder) ==
    IF Falsy(prevOrder) /\ Falsy(nextOrder) THEN config.minOrderValue
    ELSE IF Falsy(prevOrder) /\ ~Falsy(nextOrder)
         THEN Max(config.minOrderValue, nextOrder - Unit)
    ELSE prevOrder + Unit

calculateOrderPosition(config, prevOrder, nextOrder) ==
    IF Falsy(prevOrder) /\ Falsy(nextOrder) THEN config.minOrderValue
    ELSE IF Falsy(prevOrder) /\ ~Falsy(nextOrder)
         THEN Max(config.minOrderValue, nextOrder - Unit)
    ELSE IF ~Falsy(prevOrder) /\ Falsy(nextOrder)
         THEN prevOrder + Unit
    ELSE Max(config.minOrderValue, (prevOrder + nextOrder) \div 2)

\* variant: without the duplicate check
hasInvalidOrderValues_noDuplicates(arr, config) ==
    \E i \in 1..Len(arr) :
        arr[i].order # Undefined /\ arr[i].order < config.minOrderValue

\* variant: order <= minOrderValue, which rejects the floor itself
hasInvalidOrderValues_inclusiveMin(arr, config) ==
    LET ordersWithValues ==
            SelectSeq([ i \in 1..Len(arr) |-> arr[i].order ],
                      LAMBDA o : o # Undefined)
        uniqueOrders == { ordersWithValues[i] : i \in 1..Len(ordersWithValues) }
    IN  \/ \E i \in 1..Len(ordersWithValues) :
              ordersWithValues[i] <= config.minOrderValue
        \/ Cardinality(uniqueOrders) # Len(ordersWithValues)

hasInvalidOrderValues(arr, config) ==
    LET ordersWithValues ==
            SelectSeq([ i \in 1..Len(arr) |-> arr[i].order ],
                      LAMBDA o : o # Undefined)
        uniqueOrders == { ordersWithValues[i] : i \in 1..Len(ordersWithValues) }
    IN  \/ \E i \in 1..Len(ordersWithValues) :
              ordersWithValues[i] < config.minOrderValue
        \/ Cardinality(uniqueOrders) # Len(ordersWithValues)

\* variant: without the single-item special case
needsRenumbering_noSingleCase(arr, tIndex, nOrder, mId, config) ==
    IF nOrder < config.minOrderValue THEN TRUE
    ELSE hasInvalidOrderValues(arr, config)

\* variant: without the checks of the gap to the neighbours
needsRenumbering_noGapCheck(arr, tIndex, nOrder, mId, config) ==
    IF Len(arr) = 1 THEN FALSE
    ELSE IF nOrder < config.minOrderValue THEN TRUE
    ELSE hasInvalidOrderValues(arr, config)

\* variant: only the previous neighbour is checked for a tight gap
needsRenumbering_noNextCheck(arr, tIndex, nOrder, mId, config) ==
    IF Len(arr) = 1 THEN FALSE
    ELSE IF nOrder < config.minOrderValue THEN TRUE
    ELSE IF hasInvalidOrderValues(arr, config) THEN TRUE
    ELSE LET sortedItemsWithoutMoved == sortItemsByOrder(FilterNotId(arr, mId))
             prevOrder == IF tIndex > 0
                          THEN OrderAt(sortedItemsWithoutMoved, tIndex - 1)
                          ELSE Undefined
         IN  prevOrder # Undefined /\ Abs(nOrder - prevOrder) < config.minOrderGap

\* variant: a gap equal to minOrderGap counts as too tight
needsRenumbering_inclusiveGap(arr, tIndex, nOrder, mId, config) ==
    IF Len(arr) = 1 THEN FALSE
    ELSE IF nOrder < config.minOrderValue THEN TRUE
    ELSE IF hasInvalidOrderValues(arr, config) THEN TRUE
    ELSE LET sortedItemsWithoutMoved == sortItemsByOrder(FilterNotId(arr, mId))
             prevOrder == IF tIndex > 0
                          THEN OrderAt(sortedItemsWithoutMoved, tIndex - 1)
                          ELSE Undefined
             nextOrder == IF tIndex < Len(sortedItemsWithoutMoved)
                          THEN OrderAt(sortedItemsWithoutMoved, tIndex)
                          ELSE Undefined
         IN  \/ prevOrder # Undefined /\ Abs(nOrder - prevOrder) <= config.minOrderGap
             \/ nextOrder # Undefined /\ Abs(nOrder - nextOrder) <= config.minOrderGap

needsRenumbering(arr, tIndex, nOrder, mId, config) ==
    IF Len(arr) = 1 THEN FALSE
    ELSE IF nOrder < config.minOrderValue THEN TRUE
    ELSE IF hasInvalidOrderValues(arr, config) THEN TRUE
    ELSE LET sortedItemsWithoutMoved == sortItemsByOrder(FilterNotId(arr, mId))
             prevOrder == IF tIndex > 0
                          THEN OrderAt(sortedItemsWithoutMoved, tIndex - 1)
                          ELSE Undefined
             nextOrder == IF tIndex < Len(sortedItemsWithoutMoved)
                          THEN OrderAt(sortedItemsWithoutMoved, tIndex)
                          ELSE Undefined
         IN  \/ prevOrder # Undefined /\ Abs(nOrder - prevOrder) < config.minOrderGap
             \/ nextOrder # Undefined /\ Abs(nOrder - nextOrder) < config.minOrderGap

\* variant: index * renumberGap with the 0-based index
renumberAllItems_zeroBased(arr, config) ==
    [ i \in 1..Len(arr) |-> [ id |-> arr[i].id, order |-> (i - 1) * config.renumberGap ] ]

renumberAllItems(arr, config) ==
    [ i \in 1..Len(arr) |-> [ id |-> arr[i].id, order |-> i * config.renumberGap ] ]

\* variant: targetIndex = length passes the bounds check
ValidationError_offByOne(arr, mId, tIndex) ==
    IF Len(arr) = 0 THEN "Items array cannot be empty"
    ELSE IF mId = "" THEN "moveId is required"
    ELSE IF tIndex < 0 \/ tIndex > Len(arr) THEN "targetIndex is out of bounds"
    ELSE IF FindIndex(arr, mId) = 0 THEN "Item not found"
    ELSE "none"

\* variant: the lookup of moveId comes before the bounds check
ValidationError_lookupFirst(arr, mId, tIndex) ==
    IF Len(arr) = 0 THEN "Items array cannot be empty"
    ELSE IF mId = "" THEN "moveId is required"
    ELSE IF FindIndex(arr, mId) = 0 THEN "Item not found"
    ELSE IF tIndex < 0 \/ tIndex >= Len(arr) THEN "targetIndex is out of bounds"
    ELSE "none"

\* the first failing validation of reorderItems, "none" when all pass
ValidationError(arr, mId, tIndex) ==
    IF Len(arr) = 0 THEN "Items array cannot be empty"
    ELSE IF mId = "" THEN "moveId is required"
    ELSE IF tIndex < 0 \/ tIndex >= Len(arr) THEN "targetIndex is out of bounds"
    ELSE IF FindIndex(arr, mId) = 0 THEN "Item not found"
    ELSE "none"

\* lines 178-196 of reorderItems
ItemsWithoutMoved(arr, mId) == FilterNotId(sortItemsByOrder(arr), mId)

PrevOrder(arr, mId, tIndex) ==
    IF tIndex > 0 THEN OrderAt(ItemsWithoutMoved(arr, mId), tIndex - 1) ELSE Undefined

NextOrder(arr, mId, tIndex) ==
    IF tIndex < Len(ItemsWithoutMoved(arr, mId))
    THEN OrderAt(ItemsWithoutMoved(arr, mId), tIndex)
    ELSE Undefined

\* variant: the moved item is re-inserted without `order: newOrder`
NewSortedItems_keepsOrder(arr, mId, tIndex, nOrder) ==
    Splice(ItemsWithoutMoved(arr, mId), tIndex, arr[FindIndex(arr, mId)])

NewSortedItems(arr, mId, tIndex, nOrder) ==
    Splice(ItemsWithoutMoved(arr, mId), tIndex,
           [ id |-> arr[FindIndex(arr, mId)].id, order |-> nOrder ])

\* variant: items.sort(...) without the copy, which sorts the caller's array
InputAfterCall_sortInPlace(arr) == sortItemsByOrder(arr)

\* The caller's array after a call.  Both functions sort a copy ([...items]),
\* filter and splice work on new arrays, and the new orders go into new
\* objects ({ ...item, order }): nothing writes to the input.
InputAfterCall(arr) == arr

\* no second call was made
NoResult == [ error |-> "none", newOrder |-> Undefined, renumbered |-> FALSE,
              changes |-> <<>>, orderedItems |-> <<>> ]

\* reorderItems(arr, mId, tIndex, opts) as a function of its arguments
ReorderResult(arr, mId, tIndex, opts) ==
    LET config == Config(opts)
        err    == ValidationError(arr, mId, tIndex)
    IN  IF err # "none"
        THEN [ NoResult EXCEPT !.error = err ]
        ELSE LET nOrder == calculateOrderPosition(config,
                               PrevOrder(arr, mId, tIndex),
                               NextOrder(arr, mId, tIndex))
                 newSortedItems == NewSortedItems(arr, mId, tIndex, nOrder)
                 renumber == needsRenumbering(arr, tIndex, nOrder, mId, config)
                 renumberedItems == renumberAllItems(newSortedItems, config)
             IN  [ error |-> "none",
                   newOrder |-> nOrder,
                   renumbered |-> renumber,
                   changes |-> IF renumber
                               THEN SelectSeq(renumberedItems,
                                              LAMBDA it : it.order # Undefined)
                               ELSE << [ id |-> mId, order |-> nOrder ] >>,
                   orderedItems |-> IF renumber THEN renumberedItems
                                    ELSE newSortedItems ]

----------------------------------------------------------------------------
(* Inputs *)

\* arrays of up to MaxItems items with pairwise distinct ids; the i-th item
\* of the array carries the i-th id, the orders are in any arrangement
ItemArrays ==
    UNION { { [ i \in 1..n |-> [ id |-> IdNames[i], order |-> f[i] ] ] :
                f \in [ 1..n -> Orders ] } : n \in 0..MaxItems }

MoveIds == Ids \cup { "", UnknownId }

TargetIndexes == (0 - 1)..MaxItems

OptionSets ==
    { [ minOrderGap |-> Undefined, renumberGap |-> Undefined, minOrderValue |-> Undefined ],
      [ minOrderGap |-> Undefined, renumberGap |-> 5 * Unit, minOrderValue |-> 10 * Unit ],
      [ minOrderGap |-> Undefined, renumberGap |-> Undefined, minOrderValue |-> 0 ],
      [ minOrderGap |-> 1 * Unit, renumberGap |-> Undefined, minOrderValue |-> Undefined ] }

----------------------------------------------------------------------------
(* State machine *)

Init ==
    /\ items \in ItemArrays
    /\ moveId \in MoveIds
    /\ targetIndex \in TargetIndexes
    /\ options \in OptionSets
    /\ pc = "ready"
    /\ error = "none"
    /\ newOrder = Undefined
    /\ renumbered = FALSE
    /\ changes = <<>>
    /\ orderedItems = <<>>
    /\ sortedItems = <<>>
    /\ second = NoResult
    /\ db = <<>>
    /\ db0 = <<>>
    /\ caller = <<>>
    /\ serialized = FALSE
    /\ lock = 0
    /\ plan = "none"
    /\ start = <<>>
    /\ calls = 0
    /\ shadow = <<>>

\* a call reorderItems(items, moveId, targetIndex, options)
reorderItems ==
    /\ pc = "ready"
    /\ LET config  == Config(options)
           err     == ValidationError(items, moveId, targetIndex)
       IN  IF err # "none"
           THEN /\ pc' = "threw"
                /\ error' = err
                /\ UNCHANGED <<newOrder, renumbered, changes, orderedItems>>
           ELSE LET nOrder == calculateOrderPosition(config,
                                  PrevOrder(items, moveId, targetIndex),
                                  NextOrder(items, moveId, targetIndex))
                    newSortedItems == NewSortedItems(items, moveId, targetIndex, nOrder)
                    renumber == needsRenumbering(items, targetIndex, nOrder, moveId, config)
                    renumberedItems == renumberAllItems(newSortedItems, config)
                IN  /\ pc' = "returned"
                    /\ error' = "none"
                    /\ newOrder' = nOrder
                    /\ renumbered' = renumber
                    /\ orderedItems' = IF renumber THEN renumberedItems ELSE newSortedItems
                    /\ changes' = IF renumber
                                  THEN SelectSeq(renumberedItems,
                                                 LAMBDA it : it.order # Undefined)
                                  ELSE << [ id |-> moveId, order |-> nOrder ] >>
    /\ items' = InputAfterCall(items)
    /\ UNCHANGED <<moveId, targetIndex, options, sortedItems, second>>
    /\ UNCHANGED repoVars
    /\ UNCHANGED sessionVars

\* a call sortItemsByOrder(items)
SortCall ==
    /\ pc = "ready"
    /\ pc' = "sorted"
    /\ sortedItems' = sortItemsByOrder(items)
    /\ items' = InputAfterCall(items)
    /\ UNCHANGED <<moveId, targetIndex, options, error, newOrder,
                   renumbered, changes, orderedItems, second>>
    /\ UNCHANGED repoVars
    /\ UNCHANGED sessionVars

Next == reorderItems \/ SortCall

Spec == Init /\ [][Next]_vars

\* the caller passes the returned orderedItems back with the same moveId,
\* targetIndex and options: reorderItems(result.orderedItems, moveId, targetIndex)
reorderAgain ==
    /\ pc = "returned"
    /\ pc' = "repeated"
    /\ second' = ReorderResult(orderedItems, moveId, targetIndex, options)
    /\ UNCHANGED <<items, moveId, targetIndex, options, error, newOrder,
                   renumbered, changes, orderedItems, sortedItems>>
    /\ UNCHANGED repoVars
    /\ UNCHANGED sessionVars

NextRepeat == reorderItems \/ reorderAgain

SpecRepeat == Init /\ [][NextRepeat]_vars

----------------------------------------------------------------------------
(* The repository usage pattern: callers of reorderItems that share a      *)
(* stored collection (docs/reorder-function.md, reorderChapters)           *)

Callers == 1..2

DefaultOptions ==
    [ minOrderGap |-> Undefined, renumberGap |-> Undefined, minOrderValue |-> Undefined ]

\* collection.updateById(change.id, { $set: { order: change.order } })
UpdateById(store, change) ==
    [ i \in 1..Len(store) |->
        IF store[i].id = change.id
        THEN [ id |-> store[i].id, order |-> change.order ]
        ELSE store[i] ]

\* for (const change of reorderResult.changes) updateById(...)
RECURSIVE ApplyChanges(_, _)
ApplyChanges(store, chs) ==
    IF chs = <<>> THEN store
    ELSE ApplyChanges(UpdateById(store, Head(chs)), Tail(chs))

\* one whole reorderChapters on a store: read, reorderItems, write back
ReorderStored(store, mId, tIndex) ==
    ApplyChanges(store, ReorderResult(store, mId, tIndex, DefaultOptions).changes)

\* stored collections of 2..MaxItems entities, every position defined, at
\* least DEFAULT_MIN_ORDER_VALUE and strictly ascending
ValidCollections ==
    { arr \in ItemArrays :
        /\ Len(arr) >= 2
        /\ \A i \in 1..Len(arr) :
              arr[i].order # Undefined /\ arr[i].order >= DEFAULT_MIN_ORDER_VALUE
        /\ \A i \in 1..(Len(arr) - 1) : arr[i].order < arr[i + 1].order }

Idle == [ pc |-> "idle", moveId |-> "", targetIndex |-> 0, pending |-> <<>> ]

InitRepo ==
    /\ db \in ValidCollections
    /\ db0 = db
    /\ caller = [ c \in Callers |-> Idle ]
    /\ serialized \in BOOLEAN
    /\ lock = 0
    /\ items = <<>>
    /\ moveId = ""
    /\ targetIndex = 0
    /\ options = DefaultOptions
    /\ pc = "repository"
    /\ error = "none"
    /\ newOrder = Undefined
    /\ renumbered = FALSE
    /\ changes = <<>>
    /\ orderedItems = <<>>
    /\ sortedItems = <<>>
    /\ second = NoResult
    /\ plan = "none"
    /\ start = <<>>
    /\ calls = 0
    /\ shadow = <<>>

\* variant: nobody waits for the lock
MayRead_noLock(c) == TRUE

\* a serialized caller starts only when no other caller holds the lock
MayRead(c) == serialized => lock = 0

\* steps 1-4 of reorderChapters: fetch the current collection, pick the
\* moved id and its new position, call reorderItems on what was fetched
ReadAndCompute(c) ==
    /\ caller[c].pc = "idle"
    /\ MayRead(c)
    /\ \E i \in 1..Len(db), t \in 0..(Len(db) - 1) :
          caller' = [ caller EXCEPT ![c] =
                        [ pc |-> "writing",
                          moveId |-> db[i].id,
                          targetIndex |-> t,
                          pending |-> ReorderResult(db, db[i].id, t,
                                                    DefaultOptions).changes ] ]
    /\ lock' = IF serialized THEN c ELSE lock
    /\ UNCHANGED <<db, db0, serialized>>
    /\ UNCHANGED callVars
    /\ UNCHANGED sessionVars

\* step 5 of reorderChapters: one updateById of the loop over changes; the
\* caller is done, and frees the lock, after the last one
WriteChange(c) ==
    /\ caller[c].pc = "writing"
    /\ caller[c].pending # <<>>
    /\ db' = UpdateById(db, Head(caller[c].pending))
    /\ LET rest == Tail(caller[c].pending)
       IN  /\ caller' = [ caller EXCEPT ![c].pending = rest,
                                        ![c].pc = IF rest = <<>> THEN "done"
                                                  ELSE "writing" ]
           /\ lock' = IF rest = <<>> /\ serialized THEN 0 ELSE lock
    /\ UNCHANGED <<db0, serialized>>
    /\ UNCHANGED callVars
    /\ UNCHANGED sessionVars

NextRepo == \E c \in Callers : ReadAndCompute(c) \/ WriteChange(c)

SpecRepo == InitRepo /\ [][NextRepo]_vars

----------------------------------------------------------------------------
(* Vocabulary of the properties *)

Returned == pc = "returned"

cfg == Config(options)

Defined(o) == o # Undefined

\* the index of id in the input array (ids of the input are pairwise distinct)
InputIndex(id) == CHOOSE i \in 1..Len(items) : items[i].id = id

\* input item i sorts before input item j: ascending by position, an absent
\* position after every defined one, input order among equals
SortsBefore(i, j) ==
    LET a == items[i].order
        b == items[j].order
    IN  IF ~Defined(a) THEN ~Defined(b) /\ i < j
        ELSE IF ~Defined(b) THEN TRUE
        ELSE a < b \/ (a = b /\ i < j)

InputUnsorted == \E i, j \in 1..Len(items) : i < j /\ SortsBefore(j, i)

\* some entity of the input has a defined position below the floor, or two
\* entities of the input share a defined position
InputCorrupt ==
    \/ \E i \in 1..Len(items) :
          Defined(items[i].order) /\ items[i].order < cfg.minOrderValue
    \/ \E i, j \in 1..Len(items) :
          i # j /\ Defined(items[i].order) /\ items[i].order = items[j].order

----------------------------------------------------------------------------
(* C1: for every valid input and every configuration, orderedItems is a    *)
(* permutation of the input by id: same count, every input id exactly once *)
C1_Permutation ==
    Returned =>
        /\ Len(orderedItems) = Len(items)
        /\ \A i \in 1..Len(items) :
              Cardinality({ k \in 1..Len(orderedItems) :
                              orderedItems[k].id = items[i].id }) = 1
        /\ \A k \in 1..Len(orderedItems) :
              \E i \in 1..Len(items) : items[i].id = orderedItems[k].id

\* a three-item input whose result has the ids in another arrangement
C1_Witness ==
    /\ Returned
    /\ Len(items) = 3
    /\ \E k \in 1..3 : orderedItems[k].id # items[k].id

C3_OutputSorted ==
    Returned => sortItemsByOrder(orderedItems) = orderedItems

(* C4: for every configuration every defined position in orderedItems is   *)
(* at least minOrderValue, on the single-change and on the renumber path   *)
C4_OutputAtLeastMin ==
    Returned =>
        \A k \in 1..Len(orderedItems) :
            Defined(orderedItems[k].order)
            => orderedItems[k].order >= cfg.minOrderValue

(* C5: no two entities of orderedItems share an equal defined position     *)
C5_OutputDistinct ==
    Returned =>
        \A p, q \in 1..Len(orderedItems) :
            (p # q /\ Defined(orderedItems[p].order))
            => orderedItems[p].order # orderedItems[q].order

C8_Precondition ==
    /\ ~InputCorrupt
    /\ LET prev == PrevOrder(items, moveId, targetIndex)
           next == NextOrder(items, moveId, targetIndex)
       IN  /\ Defined(prev) => Abs(newOrder - prev) >= cfg.minOrderGap
           /\ Defined(next) => Abs(newOrder - next) >= cfg.minOrderGap

C8_SingleChange ==
    (Returned /\ C8_Precondition) =>
        changes = << [ id |-> moveId, order |-> newOrder ] >>

\* a move between two positioned neighbours that meets the precondition
C8_Witness ==
    /\ Returned
    /\ C8_Precondition
    /\ Len(items) = 3
    /\ Defined(PrevOrder(items, moveId, targetIndex))
    /\ Defined(NextOrder(items, moveId, targetIndex))
    /\ Len(changes) = 1

(* C9: the candidate is minOrderValue when both neighbours are absent,     *)
(* max(minOrderValue, next - 1) when only next is present, previous + 1    *)
(* when only previous is present, max(minOrderValue, (previous + next)/2)  *)
(* when both are present, for every numeric neighbour value including 0    *)
C9_Candidate ==
    Returned =>
        LET prev == PrevOrder(items, moveId, targetIndex)
            next == NextOrder(items, moveId, targetIndex)
        IN  newOrder =
              IF ~Defined(prev) /\ ~Defined(next) THEN cfg.minOrderValue
              ELSE IF ~Defined(prev) THEN Max(cfg.minOrderValue, next - Unit)
              ELSE IF ~Defined(next) THEN prev + Unit
              ELSE Max(cfg.minOrderValue, (prev + next) \div 2)

----------------------------------------------------------------------------
(* Vocabulary of the properties about a move to the index already held *)

\* the position of the entity with this id in the input
InputOrder(id) == items[InputIndex(id)].order

\* the moved entity already sits at targetIndex of the position-sorted input
AtOwnIndex ==
    /\ Returned
    /\ sortItemsByOrder(items)[targetIndex + 1].id = moveId

\* the candidate is closer than minOrderGap to an immediate neighbour of the
\* target slot that has a defined position
TightGap ==
    LET prev == PrevOrder(items, moveId, targetIndex)
        next == NextOrder(items, moveId, targetIndex)
    IN  \/ Defined(prev) /\ Abs(newOrder - prev) < cfg.minOrderGap
        \/ Defined(next) /\ Abs(newOrder - next) < cfg.minOrderGap

IdsOf(arr) == [ k \in 1..Len(arr) |-> arr[k].id ]

(* C11: on the single-change path changes holds no record for an entity    *)
(* whose final position equals its position in the input, the moved entity *)
(* included                                                                *)
C11_NoRecordForUnchanged ==
    (Returned /\ ~renumbered) =>
        \A k \in 1..Len(changes) : changes[k].order # InputOrder(changes[k].id)

(* C12: moving an entity to the index it already occupies returns exactly  *)
(* one change record, for that entity                                      *)
C12_OwnIndexOneRecord ==
    AtOwnIndex => (Len(changes) = 1 /\ changes[1].id = moveId)

(* C12 as amended: moving an entity to the index it already occupies       *)
(* returns exactly one change record, for that entity, unless the set has  *)
(* more than one entity and the input is corrupt or the candidate is       *)
(* closer than minOrderGap to a neighbour; then it returns one record per  *)
(* entity                                                                  *)
C12_OwnIndexOneRecordUnlessRenumber ==
    AtOwnIndex =>
        IF Len(items) > 1 /\ (InputCorrupt \/ TightGap)
        THEN /\ Len(changes) = Len(items)
             /\ \A i \in 1..Len(items) :
                   \E k \in 1..Len(changes) : changes[k].id = items[i].id
        ELSE /\ Len(changes) = 1
             /\ changes[1].id = moveId

\* a valid three-entity input whose middle entity is moved to the middle and
\* lands too close to a neighbour
C12_Witness ==
    /\ AtOwnIndex
    /\ Len(items) = 3
    /\ targetIndex = 1
    /\ ~InputCorrupt
    /\ TightGap
    /\ Len(changes) = 3

(* C13: moving an entity to the sorted index it already occupies leaves    *)
(* its position unchanged: its change record carries the position it had   *)
(* in the input and orderedItems equals the position-sorted input          *)
C13_OwnIndexKeepsPosition ==
    AtOwnIndex =>
        /\ \A k \in 1..Len(changes) :
              changes[k].id = moveId => changes[k].order = InputOrder(moveId)
        /\ orderedItems = sortItemsByOrder(items)

(* C13 as amended: moving an entity to the sorted index it already         *)
(* occupies leaves the order of the ids unchanged, and on the              *)
(* single-change path every other entity keeps its position; the moved     *)
(* entity gets the candidate computed from its neighbours, whatever        *)
(* position it had                                                         *)
C13_OwnIndexKeepsIdOrder ==
    AtOwnIndex =>
        /\ IdsOf(orderedItems) = IdsOf(sortItemsByOrder(items))
        /\ ~renumbered =>
              /\ \A k \in 1..Len(orderedItems) :
                    orderedItems[k].id # moveId
                    => orderedItems[k].order = InputOrder(orderedItems[k].id)
              /\ orderedItems[targetIndex + 1].order = newOrder
              /\ changes = << [ id |-> moveId, order |-> newOrder ] >>

\* the middle entity of three moved to the middle on the single-change path,
\* getting another position than it had
C13_Witness ==
    /\ AtOwnIndex
    /\ Len(items) = 3
    /\ targetIndex = 1
    /\ ~renumbered
    /\ Defined(InputOrder(moveId))
    /\ newOrder # InputOrder(moveId)

(* C15: a single-entity set never takes the renumber path, whatever the    *)
(* stored position (absent, below minOrderValue or valid): the result is   *)
(* one change record for that entity with position minOrderValue           *)
C15_SingleItem ==
    (Returned /\ Len(items) = 1) =>
        /\ ~renumbered
        /\ changes = << [ id |-> items[1].id, order |-> cfg.minOrderValue ] >>
        /\ orderedItems = << [ id |-> items[1].id, order |-> cfg.minOrderValue ] >>

\* a single entity stored with a position below the floor
C15_Witness ==
    /\ Returned
    /\ Len(items) = 1
    /\ Defined(items[1].order)
    /\ items[1].order < cfg.minOrderValue

AppliedChanges ==
    { IF \E k \in 1..Len(changes) : changes[k].id = items[i].id
      THEN LET k == CHOOSE k \in 1..Len(changes) :
                        /\ changes[k].id = items[i].id
                        /\ \A j \in (k + 1)..Len(changes) : changes[j].id # items[i].id
           IN  [ id |-> items[i].id, order |-> changes[k].order ]
      ELSE items[i] : i \in 1..Len(items) }

C18_ChangesSufficient ==
    Returned =>
        /\ AppliedChanges = { orderedItems[k] : k \in 1..Len(orderedItems) }
        /\ \A k \in 1..Len(orderedItems) :
              (\A j \in 1..Len(changes) : changes[j].id # orderedItems[k].id)
              => orderedItems[k].order = InputOrder(orderedItems[k].id)

\* a single change among three entities, one of them without a position
C18_Witness ==
    /\ Returned
    /\ Len(items) = 3
    /\ Len(changes) = 1
    /\ newOrder # InputOrder(moveId)
    /\ \E i \in 1..3 : items[i].id # moveId /\ ~Defined(items[i].order)

(* C20: with more than one entity, renumbering is triggered whenever the   *)
(* candidate is strictly closer than minOrderGap to the previous or to the *)
(* next neighbour of the post-removal ordering; a distance equal to        *)
(* minOrderGap does not trigger it and a neighbour without a position is   *)
(* skipped                                                                 *)
C20_TightGapRenumbers ==
    (Returned /\ Len(items) > 1) =>
        /\ TightGap => renumbered
        /\ (~TightGap /\ ~InputCorrupt) => ~renumbered

\* a neighbour exactly minOrderGap away, the other neighbour without a
\* position: no renumbering
C20_WitnessBoundary ==
    /\ Returned
    /\ Len(items) = 3
    /\ ~InputCorrupt
    /\ ~renumbered
    /\ LET prev == PrevOrder(items, moveId, targetIndex)
           next == NextOrder(items, moveId, targetIndex)
       IN  \/ /\ Defined(prev) /\ Abs(newOrder - prev) = cfg.minOrderGap
              /\ targetIndex < 2 /\ ~Defined(next)
           \/ /\ Defined(next) /\ Abs(newOrder - next) = cfg.minOrderGap
              /\ targetIndex > 0 /\ ~Defined(prev)

\* the next neighbour alone is too close
C20_Witness ==
    /\ Returned
    /\ Len(items) > 1
    /\ ~InputCorrupt
    /\ targetIndex = 0
    /\ TightGap
    /\ renumbered

----------------------------------------------------------------------------
(* Calling again on the result *)

Repeated == pc = "repeated"

\* the result of the first call agrees with ReorderResult
FirstCallIsReorderResult ==
    Returned =>
        ReorderResult(items, moveId, targetIndex, options) =
            [ error |-> error, newOrder |-> newOrder, renumbered |-> renumbered,
              changes |-> changes, orderedItems |-> orderedItems ]

DistinctPositions(arr) ==
    \A p, q \in 1..Len(arr) :
        (p # q /\ Defined(arr[p].order)) => arr[p].order # arr[q].order

C14_WitnessSingleChange ==
    /\ Repeated
    /\ ~renumbered
    /\ Len(items) = 3
    /\ DistinctPositions(orderedItems)
    /\ newOrder # InputOrder(moveId)
    /\ second.changes = changes

----------------------------------------------------------------------------
(* Callers of a shared collection *)

AllDone == \A c \in Callers : caller[c].pc = "done"

\* every stored position is defined, at least the floor and held by one entity
StoreValid(store) ==
    /\ \A i \in 1..Len(store) :
          Defined(store[i].order) /\ store[i].order >= DEFAULT_MIN_ORDER_VALUE
    /\ \A i, j \in 1..Len(store) : i # j => store[i].order # store[j].order

\* what the two moves give when one caller runs after the other
SerialOutcomes ==
    { ReorderStored(ReorderStored(db0, caller[a].moveId, caller[a].targetIndex),
                    caller[b].moveId, caller[b].targetIndex) :
        <<a, b>> \in { <<1, 2>>, <<2, 1>> } }

(* C19: two callers that read the same snapshot, each compute a reorder    *)
(* and write back without serialization can leave the collection in a      *)
(* state that no serial execution of the two moves produces, for example   *)
(* with two equal positions; with serialized read-compute-write cycles     *)
(* that is not reachable from a valid fully positioned collection          *)
C19_SerializedStaysValid ==
    (serialized /\ AllDone) =>
        /\ StoreValid(db)
        /\ db \in SerialOutcomes

\* the race: both callers done without serialization, two entities with the
\* same position, a state neither serial order gives
C19_Witness ==
    /\ ~serialized
    /\ AllDone
    /\ \E i, j \in 1..Len(db) : i # j /\ db[i].order = db[j].order
    /\ db \notin SerialOutcomes

\* both callers done under the lock, the second one having renumbered
C19_WitnessSerialized ==
    /\ serialized
    /\ AllDone
    /\ db # db0
    /\ \E c \in Callers : Len(ReorderResult(db0, caller[c].moveId,
                               caller[c].targetIndex, DefaultOptions).changes) > 1

----------------------------------------------------------------------------
(* Triggers of the renumbering, validation order, size of changes *)

\* the item goes to the first position and the position of the first
\* remaining item, less one, is below minOrderValue
FirstLessOneBelowMin ==
    LET next == NextOrder(items, moveId, targetIndex)
    IN  /\ targetIndex = 0
        /\ Defined(next)
        /\ next - Unit < cfg.minOrderValue

(* C21: renumbering is triggered whenever the position calculated for the  *)
(* moved entity would be below minOrderValue, in particular whenever an    *)
(* entity is moved to the first position and the position of the first     *)
(* remaining entity less one is below minOrderValue                        *)
C21_BelowMinRenumbers ==
    (Returned /\ FirstLessOneBelowMin) => renumbered

\* some entity of the input has exactly the position minOrderValue
SomeAtMin == \E i \in 1..Len(items) : items[i].order = cfg.minOrderValue

(* C22: a position equal to minOrderValue is invalid like one below it: a  *)
(* set of more than one entity in which some entity has exactly the        *)
(* position minOrderValue triggers renumbering on any move                 *)
C22_MinIsInvalid ==
    (Returned /\ Len(items) > 1 /\ SomeAtMin) => renumbered

(* C22 as amended: a position equal to minOrderValue is valid, only a      *)
(* defined position strictly below it is invalid: a set of more than one   *)
(* entity with such a position renumbers on any move, and a set with an    *)
(* entity at exactly minOrderValue, no position below it, no two equal     *)
(* positions and no neighbour of the target slot closer than minOrderGap   *)
(* to the candidate takes the single-change path                           *)
C22_OnlyBelowMinInvalid ==
    (Returned /\ Len(items) > 1) =>
        /\ (\E i \in 1..Len(items) :
                Defined(items[i].order) /\ items[i].order < cfg.minOrderValue)
              => renumbered
        /\ (SomeAtMin /\ ~InputCorrupt /\ ~TightGap) => ~renumbered

\* the first of three entities sits at the floor, the last one is moved
\* between the other two without a renumbering
C22_Witness ==
    /\ Returned
    /\ Len(items) = 3
    /\ targetIndex = 1
    /\ PrevOrder(items, moveId, targetIndex) = cfg.minOrderValue
    /\ ~InputCorrupt
    /\ ~renumbered
    /\ Len(changes) = 1

(* C23: when several validations fail, the error is that of the first      *)
(* failing one in the order: empty collection, missing moveId, targetIndex *)
(* out of range, entity not found                                          *)
C23_ErrorPriority ==
    (pc = "threw") =>
        LET empty      == Len(items) = 0
            noMoveId   == moveId = ""
            outOfRange == targetIndex < 0 \/ targetIndex >= Len(items)
            notFound   == \A i \in 1..Len(items) : items[i].id # moveId
        IN  /\ empty => error = "Items array cannot be empty"
            /\ (~empty /\ noMoveId) => error = "moveId is required"
            /\ (~empty /\ ~noMoveId /\ outOfRange)
                  => error = "targetIndex is out of bounds"
            /\ (~empty /\ ~noMoveId /\ ~outOfRange)
                  => (notFound /\ error = "Item not found")

\* an unknown id together with an index past the end: the index is reported
C23_Witness ==
    /\ pc = "threw"
    /\ Len(items) = 2
    /\ moveId = UnknownId
    /\ targetIndex = 2
    /\ error = "targetIndex is out of bounds"

\* an empty collection together with a missing moveId and a negative index
C23_WitnessEmpty ==
    /\ pc = "threw"
    /\ Len(items) = 0
    /\ moveId = ""
    /\ targetIndex < 0
    /\ error = "Items array cannot be empty"

(* C24: changes has more than one entry exactly when renumbering was       *)
(* triggered: a renumbering never yields a single change record and the    *)
(* single-change path never yields more than one                           *)
C24_ManyChangesIffRenumbered ==
    Returned => (Len(changes) > 1 <=> renumbered)

\* the smallest renumbering: two entities, two records
C24_Witness ==
    /\ Returned
    /\ renumbered
    /\ Len(items) = 2
    /\ Len(changes) = 2

\* two entities of the array have defined positions closer than the gap
TightPair(arr) ==
    \E i, j \in 1..Len(arr) :
        /\ i # j
        /\ Defined(arr[i].order)
        /\ Defined(arr[j].order)
        /\ Abs(arr[i].order - arr[j].order) < cfg.minOrderGap

(* C25: any call detects and fixes tight spacing in the collection: if any *)
(* two existing entities are closer than minOrderGap, also two that are    *)
(* not neighbours of the target slot, the call renumbers all entities, and *)
(* after the call no two entities are closer than minOrderGap              *)
C25_TightSpacingFixed ==
    (Returned /\ TightPair(items)) =>
        /\ renumbered
        /\ ~TightPair(orderedItems)

\* every entity of the input has a defined position, at least the default
\* floor and held by no other entity
InputValid ==
    /\ \A i \in 1..Len(items) :
          Defined(items[i].order) /\ items[i].order >= DEFAULT_MIN_ORDER_VALUE
    /\ DistinctPositions(items)

(* C26: reorderItems(items, items[0].id, 0) on a collection whose          *)
(* positions are large but otherwise valid (distinct, at least 1) forces a *)
(* renumbering that resets all positions to 10, 20, 30, ...                *)
C26_FirstToFrontRenumbers ==
    (Returned /\ options = DefaultOptions /\ InputValid /\ Len(items) > 1
        /\ moveId = items[1].id /\ targetIndex = 0) =>
        /\ renumbered
        /\ \A k \in 1..Len(orderedItems) :
              orderedItems[k].order = k * DEFAULT_RENUMBER_GAP

----------------------------------------------------------------------------
(* Sessions: a caller that makes one call after the other, each on the     *)
(* orderedItems of the one before, with the default configuration          *)
(*     result = reorderItems(items, id, index); items = result.orderedItems *)

\* the collection of gradualCorruptionExample
ScenarioStart ==
    << [ id |-> "A", order |-> 10 * Unit ],
       [ id |-> "B", order |-> 20 * Unit ],
       [ id |-> "C", order |-> 30 * Unit ] >>

\* the four calls of gradualCorruptionExample
Scenario ==
    << [ moveId |-> "C", targetIndex |-> 0 ],
       [ moveId |-> "B", targetIndex |-> 0 ],
       [ moveId |-> "A", targetIndex |-> 0 ],
       [ moveId |-> "C", targetIndex |-> 1 ] >>

\* "free": any valid move; "front" and "second": the entity that is last by
\* position goes to index 0, or to index 1, until a call renumbers;
\* "scenario": the calls of Scenario
Drills == { "front", "second" }

Plans == { "free", "scenario" } \cup Drills

\* collections a session begins with: every position defined, at least the
\* default minimum and held by one entity; the array is in ascending or in
\* descending order of position (every call sorts a copy first, and the
\* results that are fed back are sorted)
SessionStarts ==
    { arr \in ItemArrays :
        /\ Len(arr) >= 1
        /\ \A i \in 1..Len(arr) :
              arr[i].order # Undefined /\ arr[i].order >= DEFAULT_MIN_ORDER_VALUE
        /\ \/ \A i \in 1..(Len(arr) - 1) : arr[i].order < arr[i + 1].order
           \/ \A i \in 1..(Len(arr) - 1) : arr[i].order > arr[i + 1].order }
    \cup { ScenarioStart }

\* the id of the entity that is last by position
LastId(arr) == sortItemsByOrder(arr)[Len(arr)].id

\* the arguments of the call after n calls on the collection arr
NextMoves(p, arr, n) ==
    CASE p = "free" ->
            { [ moveId |-> arr[i].id, targetIndex |-> t ] :
                i \in 1..Len(arr), t \in 0..(Len(arr) - 1) }
      [] p = "front" -> { [ moveId |-> LastId(arr), targetIndex |-> 0 ] }
      [] p = "second" -> { [ moveId |-> LastId(arr), targetIndex |-> 1 ] }
      [] p = "scenario" -> { Scenario[n + 1] }

\* the caller goes on to another call
MayContinue ==
    CASE plan = "free" -> calls + 1 < MaxCalls
      [] plan = "scenario" -> calls + 1 < Len(Scenario)
      [] plan \in Drills -> ~renumbered /\ calls + 1 < DrillLimit
      [] OTHER -> FALSE

\* step 2 and 3 of the algorithm on a list of ids: remove id, insert it at
\* the 0-based index t
AbstractMove(list, id, t) ==
    LET rest == SelectSeq(list, LAMBDA x : x # id)
    IN  SubSeq(rest, 1, t) \o <<id>> \o SubSeq(rest, t + 1, Len(rest))

InitSession ==
    /\ items \in SessionStarts
    /\ start = items
    /\ plan \in IF Len(items) >= 3 THEN Plans ELSE { "free" }
    /\ \E m \in NextMoves(plan, items, 0) :
          /\ moveId = m.moveId
          /\ targetIndex = m.targetIndex
    /\ options = DefaultOptions
    /\ calls = 0
    /\ shadow = IdsOf(sortItemsByOrder(items))
    /\ pc = "ready"
    /\ error = "none"
    /\ newOrder = Undefined
    /\ renumbered = FALSE
    /\ changes = <<>>
    /\ orderedItems = <<>>
    /\ sortedItems = <<>>
    /\ second = NoResult
    /\ db = <<>>
    /\ db0 = <<>>
    /\ caller = <<>>
    /\ serialized = FALSE
    /\ lock = 0

\* items = result.orderedItems, and the arguments of the next call
Feed ==
    /\ pc = "returned"
    /\ MayContinue
    /\ items' = orderedItems
    /\ \E m \in NextMoves(plan, orderedItems, calls + 1) :
          /\ moveId' = m.moveId
          /\ targetIndex' = m.targetIndex
    /\ calls' = calls + 1
    /\ shadow' = AbstractMove(shadow, moveId, targetIndex)
    /\ pc' = "ready"
    /\ UNCHANGED <<options, error, newOrder, renumbered, changes, orderedItems,
                   sortedItems, second, plan, start>>
    /\ UNCHANGED repoVars

NextSession == reorderItems \/ Feed

SpecSession == InitSession /\ [][NextSession]_vars

\* the session is in its n-th call, which has returned
ReturnedCall(n) == Returned /\ calls + 1 = n

\* every midpoint a session computes is exact in steps of 1/Unit
MidpointsExact ==
    LET prev == PrevOrder(items, moveId, targetIndex)
        next == NextOrder(items, moveId, targetIndex)
    IN  (Returned /\ ~Falsy(prev) /\ ~Falsy(next)) => (prev + next) % 2 = 0

(* C27: from [A:10, B:20, C:30] with the default options, each call fed    *)
(* the previous orderedItems, the calls move C to 0, move B to 0, move A   *)
(* to 0, move C to 1 make the spacing too tight: the last call renumbers   *)
(* and re-emits all three entities with 10, 20, 30 in the new order        *)
C27_ScenarioRenumbers ==
    (plan = "scenario" /\ start = ScenarioStart /\ ReturnedCall(Len(Scenario))) =>
        /\ renumbered
        /\ changes = << [ id |-> "A", order |-> 10 * Unit ],
                        [ id |-> "C", order |-> 20 * Unit ],
                        [ id |-> "B", order |-> 30 * Unit ] >>

(* C28: gaps do not shrink for ever: from at least three validly placed    *)
(* entities, moving again and again the entity that is last to index 1,    *)
(* and likewise to index 0, reaches a renumbering after finitely many      *)
(* calls: a drill whose calls have not renumbered has made fewer than      *)
(* DrillLimit calls                                                        *)
C28_DrillRenumbers ==
    (Returned /\ plan \in Drills /\ ~renumbered) => calls + 1 < DrillLimit

\* moves to index 1 that halved the gap behind the first entity at least
\* five times before the renumbering
C28_Witness ==
    /\ Returned
    /\ plan = "second"
    /\ Len(start) >= 3
    /\ calls >= 5
    /\ renumbered
    /\ TightGap

\* moves to index 0 that went down to minOrderValue before the renumbering
C28_WitnessFront ==
    /\ Returned
    /\ plan = "front"
    /\ Len(start) >= 3
    /\ calls >= 2
    /\ newOrder = DEFAULT_MIN_ORDER_VALUE
    /\ renumbered

\* the array is strictly ascending by position
StrictlyAscending(arr) ==
    \A k \in 1..(Len(arr) - 1) : arr[k].order < arr[k + 1].order

(* C29: under the default configuration, from a collection whose positions *)
(* are all defined, pairwise distinct and at least 1, after any sequence   *)
(* of valid calls, each fed the previous orderedItems, every position is   *)
(* still defined, pairwise distinct and at least 1, and orderedItems is    *)
(* strictly ascending by position                                          *)
C29_SessionStaysValid ==
    /\ (plan # "none" /\ pc = "ready") => StoreValid(items)
    /\ (plan # "none" /\ Returned) =>
          /\ StoreValid(orderedItems)
          /\ StrictlyAscending(orderedItems)

\* a third call on the single-change path after which no entity of three has
\* the position it began with
C29_Witness ==
    /\ plan = "free"
    /\ ReturnedCall(3)
    /\ ~renumbered
    /\ Len(start) = 3
    /\ \A k \in 1..Len(orderedItems) :
          \A i \in 1..Len(start) :
              start[i].id = orderedItems[k].id => start[i].order # orderedItems[k].order

(* C30: over any sequence of valid moves from a collection with defined,   *)
(* distinct, valid positions, the ids sorted by position are always the    *)
(* list obtained by executing each move as remove moveId, insert it at     *)
(* targetIndex, whichever path each call took                              *)
C30_RefinesAbstractList ==
    /\ (plan # "none" /\ pc = "ready") => IdsOf(sortItemsByOrder(items)) = shadow
    /\ (plan # "none" /\ Returned) =>
          IdsOf(sortItemsByOrder(orderedItems)) = AbstractMove(shadow, moveId, targetIndex)

\* a renumbering call that changes the order of the ids, after calls that
\* changed it on the single-change path (a position that is no input value
\* and no multiple of the renumber gap is still there)
C30_Witness ==
    /\ plan = "free"
    /\ ReturnedCall(3)
    /\ renumbered
    /\ Len(start) = 3
    /\ shadow # IdsOf(sortItemsByOrder(start))
    /\ AbstractMove(shadow, moveId, targetIndex) # shadow
    /\ \E i \in 1..Len(items) :
          /\ items[i].order \notin OrderValues
          /\ items[i].order % DEFAULT_RENUMBER_GAP # 0

====
